---- MODULE Spec2Model ----
(***************************************************************************)
(* The pipe-connected prime sieve of user/primes.c.                        *)
(*                                                                         *)
(* Process 0 is main (the Driver); process d >= 1 is the child forked by   *)
(* process d-1 inside deliver_prime (the Stage at spawn depth d).  Pipe k  *)
(* is the pipe created by process k-1 and read by process k.  Every system *)
(* call of the program (pipe, fork, close, read, write, printf, wait,      *)
(* exit) is one atomic step of the process that issues it.                 *)
(*                                                                         *)
(* The module also holds the two-process handshake of user/pingpong.c      *)
(* (SpecPing) and the per-line fork/exec/wait loop of user/xargs.c         *)
(* (SpecXargs); each program has its own variables and its own Next.       *)
(***************************************************************************)
EXTENDS Integers, Sequences, FiniteSets, TLC

\* ------------------------------------------------------------------ bounds
MaxN == 15          \* every range [2, N] with N <= MaxN is explored
MaxCap == 2         \* largest pipe capacity explored (in values)
MaxFaults == 1      \* system-call failures injected per run (SpecFault)
MaxInput == 4       \* longest standard input given to xargs, in characters

\* ------------------------------------------------------- program constants
START_PRIME == 2
MAX_PRIMES == 35
PIPE_INVALID == -1
PIPE_READ == 0
PIPE_WRITE == 1

\* ------------------------------------------------------------------ universe
\* the upper ends explored: every small one and the compiled-in one
Ranges == (START_PRIME .. MaxN) \cup {MAX_PRIMES}
Largest == IF MaxN > MAX_PRIMES THEN MaxN ELSE MAX_PRIMES
MaxDepth == (Largest - 1) \div 2      \* one Stage per odd candidate at most
Procs == 0 .. MaxDepth
Stages == 1 .. MaxDepth
Pipes == 1 .. MaxDepth

VARIABLES
  N,        \* upper end of the candidate range (MAX_PRIMES of this run)
  cap,      \* capacity of every pipe, in values
  pc,       \* pc[d]: where process d is in its code
  n,        \* n[d]: parameter n of the deliver_prime call that forked d
  cur,      \* cur[0]: main's loop variable i; cur[d]: received_number of d
  cursor,   \* cursor[d]: main's p[2] / Stage d's pipe_right[2]
  fds,      \* fds[d]: pipe ends open in process d, as <<pipe, end>>
  chan,     \* chan[k]: values written to pipe k and not yet read
  ecode,    \* ecode[d]: argument of the exit call of d
  orphan,   \* orphan[d]: the parent of d exited without waiting for d
  faults,   \* failures injected so far
  out,      \* the lines printed so far (the N of each "prime N")
  sent,     \* sent[k]: every value written to pipe k, in order
  recvd,    \* recvd[k]: every value read from pipe k, in order
  joins,    \* joins[d]: how many times a wait has collected d
  exits,    \* the processes in the order they exited
  badclose  \* badclose[d]: close calls of d on a descriptor not open in d

\* user/pingpong.c
VARIABLES
  ppc,      \* ppc[p]: where the parent / the child is in main
  pfds,     \* pfds[p]: the ends of the one pipe p[] open in process p
  pchan,    \* the bytes in the pipe, each tagged with the process that wrote it
  pn,       \* pn[p]: the local n, the result of the read of p
  pgot,     \* pgot[p]: who wrote the byte that p read into buf
  ppos,     \* ppos[p]: characters of its message p has put out so far
  pout,     \* the characters written to the console, tagged with the writer
  pcode     \* pcode[p]: argument of the exit call of p

ppvars == <<ppc, pfds, pchan, pn, pgot, ppos, pout, pcode>>

\* user/xargs.c
VARIABLES
  xin,      \* the characters of standard input not yet read (shared offset)
  xpc,      \* xpc[q]: where process q is in main
  xpar,     \* xpar[q]: the process that forked q
  xbuf,     \* xbuf[q]: the line in buf of process q
  xcount,   \* number of processes forked so far
  xran      \* xran[q]: the line the command exec'ed by q was given

xvars == <<xin, xpc, xpar, xbuf, xcount, xran>>

pvars == <<N, cap, pc, n, cur, cursor, fds, chan, ecode, orphan, faults,
           out, sent, recvd, joins, exits, badclose>>

vars == <<pvars, ppvars, xvars>>

\* --------------------------------------------------------- kernel services
RD(k) == <<k, PIPE_READ>>
WR(k) == <<k, PIPE_WRITE>>

\* Some process still holds the write end of pipe k.
WriteOpen(k) == \E q \in Procs : WR(k) \in fds[q]

\* read() on pipe k returns 0: nothing buffered and no write end left.
AtEOF(k) == chan[k] = <<>> /\ ~WriteOpen(k)

\* write() on pipe k can complete: there is room.
HasRoom(k) == Len(chan[k]) < cap

\* The child of d exists and has not been collected.
HasChild(d) == d + 1 \in Procs /\ pc[d + 1] \notin {"none", "reaped"}

\* --------------------------------------------------------------- the code
\* line 94 / line 141: the value is a multiple of the filter value
IsMultipleMut(v, p) == FALSE
IsMultiple(v, p) == v % p = 0

\* line 71: the cursor was never initialized
NeedsPipeMut(d) == TRUE
NeedsPipe(d) == cursor[d][PIPE_WRITE + 1] = PIPE_INVALID

\* line 84: the argument of the Stage's print_prime
PrintArgMut(d) == cur[d]
PrintArg(d) == n[d]

\* where deliver_prime returns to: main's for loop or the Stage's while loop
LoopPc(d) == IF d = 0 THEN "for" ELSE "read"

\* line 139 (i++) on return to main's loop; a Stage keeps received_number
Advance(d) == IF d = 0 THEN [cur EXCEPT ![0] = @ + 1] ELSE cur

\* deliver_prime entered by d with the value cur[d] (line 71)
EnterDeliver(d) == IF NeedsPipe(d) THEN "pipe" ELSE "write"

\* ------------------------------------------------------ user/pingpong.c
PP == {"parent", "child"}

\* line 51 / line 63: the line printf puts out, one character per write;
\* "pid" stands for the digits of getpid()
Received(w) == <<"pid", ":", " ", "r", "e", "c", "e", "i", "v", "e", "d", " ">> \o w

PingLine == Received(<<"p", "i", "n", "g", "\n">>)

PongLine == Received(<<"p", "o", "n", "g", "\n">>)

ReadError(w) == w \o <<":", " ", "r", "e", "a", "d", " ", "e", "r", "r", "o", "r", "\n">>

\* lines 50-55 and 62-66: what p prints after its read returned pn[p]
Message(p) ==
  IF pn[p] > 0
    THEN IF p = "child" THEN PingLine ELSE PongLine
    ELSE IF p = "child" THEN ReadError(<<"c", "h", "i", "l", "d">>)
                        ELSE ReadError(<<"p", "a", "r", "e", "n", "t">>)

\* lines 58 and 70: n == 0 ? 1 : 0
ExitArg(p) == IF pn[p] = 0 THEN 1 ELSE 0

\* main of pingpong has not run
PingStart ==
  /\ ppc = [p \in PP |-> IF p = "parent" THEN "pipe" ELSE "none"]
  /\ pfds = [p \in PP |-> {}]
  /\ pchan = <<>>
  /\ pn = [p \in PP |-> 0]
  /\ pgot = [p \in PP |-> "nobody"]
  /\ ppos = [p \in PP |-> 0]
  /\ pout = <<>>
  /\ pcode = [p \in PP |-> 0]

\* line 44: pipe(p)
PingPipe ==
  /\ ppc["parent"] = "pipe"
  /\ pfds' = [pfds EXCEPT !["parent"] = {PIPE_READ, PIPE_WRITE}]
  /\ ppc' = [ppc EXCEPT !["parent"] = "fork"]
  /\ UNCHANGED <<pvars, xvars, pchan, pn, pgot, ppos, pout, pcode>>

\* line 48: fork(); the child goes to its read (line 49), the parent to its
\* write (line 60)
PingFork ==
  /\ ppc["parent"] = "fork"
  /\ pfds' = [pfds EXCEPT !["child"] = pfds["parent"]]
  /\ ppc' = [ppc EXCEPT !["parent"] = "write", !["child"] = "read"]
  /\ UNCHANGED <<pvars, xvars, pchan, pn, pgot, ppos, pout, pcode>>

\* where p goes after its write: the parent reads (line 61), the child
\* closes (line 56)
AfterWrite(p) == IF p = "parent" THEN "read" ELSE "close_r"

\* line 60 / line 52: write(p[1], "p", 1)
PingWrite(p) ==
  /\ ppc[p] = "write"
  /\ PIPE_WRITE \in pfds[p]
  /\ pchan' = Append(pchan, p)
  /\ ppc' = [ppc EXCEPT ![p] = AfterWrite(p)]
  /\ UNCHANGED <<pvars, xvars, pfds, pn, pgot, ppos, pout, pcode>>

\* line 49 / line 61: n = read(p[0], buf, 1): the oldest byte in the pipe,
\* whoever wrote it; 0 when the pipe is empty and no write end is open
PingRead(p) ==
  /\ ppc[p] = "read"
  /\ PIPE_READ \in pfds[p]
  /\ IF pchan # <<>>
       THEN /\ pchan' = Tail(pchan)
            /\ pgot' = [pgot EXCEPT ![p] = Head(pchan)]
            /\ pn' = [pn EXCEPT ![p] = 1]
       ELSE /\ \A q \in PP : PIPE_WRITE \notin pfds[q]
            /\ pn' = [pn EXCEPT ![p] = 0]
            /\ UNCHANGED <<pchan, pgot>>
  /\ ppc' = [ppc EXCEPT ![p] = "print"]
  /\ UNCHANGED <<pvars, xvars, pfds, ppos, pout, pcode>>

\* where p goes after its printf: the child writes back if n > 0 (line 52)
\* and else closes (line 56), the parent waits (line 67)
AfterPrint(p) ==
  IF p = "parent" THEN "wait" ELSE IF pn[p] > 0 THEN "write" ELSE "close_r"

\* lines 51, 54, 63, 65: printf, one character of the line per write(1, &c, 1)
PingPrint(p) ==
  /\ ppc[p] = "print"
  /\ pout' = Append(pout, <<p, Message(p)[ppos[p] + 1]>>)
  /\ ppos' = [ppos EXCEPT ![p] = @ + 1]
  /\ ppc' = IF ppos[p] + 1 = Len(Message(p))
              THEN [ppc EXCEPT ![p] = AfterPrint(p)]
              ELSE ppc
  /\ UNCHANGED <<pvars, xvars, pfds, pchan, pn, pgot, pcode>>

\* line 67: wait(0) blocks until the child has exited
PingWait ==
  /\ ppc["parent"] = "wait"
  /\ ppc["child"] = "zombie"
  /\ ppc' = [ppc EXCEPT !["parent"] = "close_r", !["child"] = "reaped"]
  /\ UNCHANGED <<pvars, xvars, pfds, pchan, pn, pgot, ppos, pout, pcode>>

\* line 56 / line 68: close(p[0])
PingCloseRead(p) ==
  /\ ppc[p] = "close_r"
  /\ pfds' = [pfds EXCEPT ![p] = @ \ {PIPE_READ}]
  /\ ppc' = [ppc EXCEPT ![p] = "close_w"]
  /\ UNCHANGED <<pvars, xvars, pchan, pn, pgot, ppos, pout, pcode>>

\* line 57 / line 69: close(p[1])
PingCloseWrite(p) ==
  /\ ppc[p] = "close_w"
  /\ pfds' = [pfds EXCEPT ![p] = @ \ {PIPE_WRITE}]
  /\ ppc' = [ppc EXCEPT ![p] = "exit"]
  /\ UNCHANGED <<pvars, xvars, pchan, pn, pgot, ppos, pout, pcode>>

\* line 58 / line 70: exit(n == 0 ? 1 : 0)
PingExit(p) ==
  /\ ppc[p] = "exit"
  /\ pcode' = [pcode EXCEPT ![p] = ExitArg(p)]
  /\ pfds' = [pfds EXCEPT ![p] = {}]
  /\ ppc' = [ppc EXCEPT ![p] = "zombie"]
  /\ UNCHANGED <<pvars, xvars, pchan, pn, pgot, ppos, pout>>

NextPing ==
  \/ PingPipe
  \/ PingFork
  \/ \E p \in PP : PingWrite(p)
  \/ \E p \in PP : PingRead(p)
  \/ \E p \in PP : PingPrint(p)
  \/ PingWait
  \/ \E p \in PP : PingCloseRead(p)
  \/ \E p \in PP : PingCloseWrite(p)
  \/ \E p \in PP : PingExit(p)

\* --------------------------------------------------------- user/xargs.c
BufSize == 1024

\* process 0 is the xargs the shell started; process j is the child forked
\* for the j-th line read
XProcs == 0 .. MaxInput
NoProc == -1

Chars == {"a", "\n"}

\* every standard input of at most MaxInput characters
Inputs == UNION {[1 .. len -> Chars] : len \in 0 .. MaxInput}

\* readline_from_stdin, lines 51-62: characters are read one at a time until
\* a newline (consumed, not stored), end of input, or max characters
RECURSIVE ReadLine(_, _, _)
ReadLine(in, line, max) ==
  IF Len(line) < max /\ in # <<>>
    THEN IF Head(in) = "\n"
           THEN [n |-> Len(line), line |-> line, rest |-> Tail(in)]
           ELSE ReadLine(Tail(in), Append(line, Head(in)), max)
    ELSE [n |-> Len(line), line |-> line, rest |-> in]

\* main of xargs has not run; input is its standard input
XargsStart(input) ==
  /\ xin = input
  /\ xpc = [q \in XProcs |-> IF q = 0 THEN "readline" ELSE "none"]
  /\ xpar = [q \in XProcs |-> NoProc]
  /\ xbuf = [q \in XProcs |-> <<>>]
  /\ xcount = 0
  /\ xran = [q \in XProcs |-> <<>>]

\* line 99: the loop condition, readline_from_stdin(buf, 1024) > 0; at 0 the
\* loop ends and main goes to exit(0) (line 116)
XReadLine(q) ==
  /\ xpc[q] = "readline"
  /\ LET r == ReadLine(xin, <<>>, BufSize) IN
       /\ xin' = r.rest
       /\ xbuf' = [xbuf EXCEPT ![q] = r.line]
       /\ xpc' = [xpc EXCEPT ![q] = IF r.n > 0 THEN "fork" ELSE "exit"]
  /\ UNCHANGED <<pvars, ppvars, xpar, xcount, xran>>

\* line 108: fork(); the child has a copy of buf and goes to exec, the
\* parent goes to wait (line 113)
XFork(q) ==
  /\ xpc[q] = "fork"
  /\ xcount + 1 \in XProcs
  /\ xcount' = xcount + 1
  /\ xpc' = [xpc EXCEPT ![q] = "wait", ![xcount + 1] = "exec"]
  /\ xpar' = [xpar EXCEPT ![xcount + 1] = q]
  /\ xbuf' = [xbuf EXCEPT ![xcount + 1] = xbuf[q]]
  /\ UNCHANGED <<pvars, ppvars, xin, xran>>

\* line 109: exec(argv[1], args) succeeds: the process is now the command
XExec(q) ==
  /\ xpc[q] = "exec"
  /\ xran' = [xran EXCEPT ![q] = xbuf[q]]
  /\ xpc' = [xpc EXCEPT ![q] = "command"]
  /\ UNCHANGED <<pvars, ppvars, xin, xpar, xbuf, xcount>>

\* lines 109-111: exec returns (it failed); fprintf "exec failed", and the
\* if block ends: control continues at the wait of line 113
XExecFail(q) ==
  /\ xpc[q] = "exec"
  /\ xpc' = [xpc EXCEPT ![q] = "wait"]
  /\ UNCHANGED <<pvars, ppvars, xin, xpar, xbuf, xcount, xran>>

\* the children of q that wait can still return
XChildren(q) == {c \in XProcs : xpar[c] = q /\ xpc[c] \notin {"none", "reaped"}}

\* line 113: wait(0): returns at once without children, collects a child
\* that has exited, blocks while its children run; then the loop continues
XWait(q) ==
  /\ xpc[q] = "wait"
  /\ IF XChildren(q) = {}
       THEN xpc' = [xpc EXCEPT ![q] = "readline"]
       ELSE \E c \in XChildren(q) :
              /\ xpc[c] = "zombie"
              /\ xpc' = [xpc EXCEPT ![q] = "readline", ![c] = "reaped"]
  /\ UNCHANGED <<pvars, ppvars, xin, xpar, xbuf, xcount, xran>>

\* the exec'ed command runs to its end and exits
XCommandExit(q) ==
  /\ xpc[q] = "command"
  /\ xpc' = [xpc EXCEPT ![q] = "zombie"]
  /\ UNCHANGED <<pvars, ppvars, xin, xpar, xbuf, xcount, xran>>

\* line 116: exit(0)
XExit(q) ==
  /\ xpc[q] = "exit"
  /\ xpc' = [xpc EXCEPT ![q] = "zombie"]
  /\ UNCHANGED <<pvars, ppvars, xin, xpar, xbuf, xcount, xran>>

NextXargs ==
  \/ \E q \in XProcs : XReadLine(q)
  \/ \E q \in XProcs : XFork(q)
  \/ \E q \in XProcs : XExec(q)
  \/ \E q \in XProcs : XExecFail(q)
  \/ \E q \in XProcs : XWait(q)
  \/ \E q \in XProcs : XCommandExit(q)
  \/ \E q \in XProcs : XExit(q)

\* -------------------------------------------------------- user/primes.c
\* main of primes has not run
PrimesStart ==
  /\ pc = [d \in Procs |-> IF d = 0 THEN "print" ELSE "none"]
  /\ n = [d \in Procs |-> 0]
  /\ cur = [d \in Procs |-> 0]
  /\ cursor = [d \in Procs |-> <<PIPE_INVALID, PIPE_INVALID>>]
  /\ fds = [d \in Procs |-> {}]
  /\ chan = [k \in Pipes |-> <<>>]
  /\ ecode = [d \in Procs |-> 0]
  /\ orphan = [d \in Procs |-> FALSE]
  /\ faults = 0
  /\ out = <<>>
  /\ sent = [k \in Pipes |-> <<>>]
  /\ recvd = [k \in Pipes |-> <<>>]
  /\ joins = [d \in Procs |-> 0]
  /\ exits = <<>>
  /\ badclose = [d \in Procs |-> 0]

\* the small ranges at every capacity, the compiled-in range at capacity 1
Init ==
  /\ N \in Ranges
  /\ cap \in 1 .. MaxCap
  /\ N <= MaxN \/ cap = 1
  /\ PrimesStart
  /\ PingStart
  /\ XargsStart(<<>>)

\* main, line 136: print_prime(START_PRIME); then i = START_PRIME + 1
MainPrint ==
  /\ pc[0] = "print"
  /\ out' = Append(out, START_PRIME)
  /\ cur' = [cur EXCEPT ![0] = START_PRIME + 1]
  /\ pc' = [pc EXCEPT ![0] = "for"]
  /\ UNCHANGED <<ppvars, xvars>>
  /\ UNCHANGED <<N, cap, n, cursor, fds, chan, ecode, orphan, faults,
                 sent, recvd, joins, exits, badclose>>

\* main, lines 139-147: one evaluation of the for loop
MainFor ==
  /\ pc[0] = "for"
  /\ IF cur[0] > N
       THEN pc' = [pc EXCEPT ![0] = "close_r"] /\ cur' = cur
       ELSE IF IsMultiple(cur[0], START_PRIME)
              THEN pc' = pc /\ cur' = [cur EXCEPT ![0] = @ + 1]
              ELSE pc' = [pc EXCEPT ![0] = EnterDeliver(0)] /\ cur' = cur
  /\ UNCHANGED <<ppvars, xvars>>
  /\ UNCHANGED <<N, cap, n, cursor, fds, chan, ecode, orphan, faults,
                 out, sent, recvd, joins, exits, badclose>>

\* deliver_prime, line 72: pipe(pipe_left) succeeds
Pipe(d) ==
  /\ pc[d] = "pipe"
  /\ d + 1 \in Procs
  /\ cursor' = [cursor EXCEPT ![d] = <<d + 1, d + 1>>]
  /\ fds' = [fds EXCEPT ![d] = @ \cup {RD(d + 1), WR(d + 1)}]
  /\ pc' = [pc EXCEPT ![d] = "fork"]
  /\ UNCHANGED <<ppvars, xvars>>
  /\ UNCHANGED <<N, cap, n, cur, chan, ecode, orphan, faults,
                 out, sent, recvd, joins, exits, badclose>>

\* Fork with the parent falling through to the write of line 119
ForkMut(d) ==
  /\ pc[d] = "fork"
  /\ pc' = [pc EXCEPT ![d] = "write", ![d + 1] = "close_lw"]
  /\ n' = [n EXCEPT ![d + 1] = cur[d]]
  /\ fds' = [fds EXCEPT ![d + 1] = fds[d]]
  /\ UNCHANGED <<ppvars, xvars>>
  /\ UNCHANGED <<N, cap, cur, cursor, chan, ecode, orphan, faults,
                 out, sent, recvd, joins, exits, badclose>>

\* deliver_prime, lines 78-79 and 110-111: fork() succeeds; the child starts
\* with a copy of every descriptor of the parent and with n = the value, the
\* parent returns to its loop
Fork(d) ==
  /\ pc[d] = "fork"
  /\ pc' = [pc EXCEPT ![d] = LoopPc(d), ![d + 1] = "close_lw"]
  /\ n' = [n EXCEPT ![d + 1] = cur[d]]
  /\ fds' = [fds EXCEPT ![d + 1] = fds[d]]
  /\ cur' = Advance(d)
  /\ UNCHANGED <<ppvars, xvars>>
  /\ UNCHANGED <<N, cap, cursor, chan, ecode, orphan, faults,
                 out, sent, recvd, joins, exits, badclose>>

\* deliver_prime, line 119: write(pipe_left[PIPE_WRITE], &n) succeeds
Write(d) ==
  /\ pc[d] = "write"
  /\ WR(d + 1) \in fds[d]
  /\ HasRoom(d + 1)
  /\ chan' = [chan EXCEPT ![d + 1] = Append(@, cur[d])]
  /\ sent' = [sent EXCEPT ![d + 1] = Append(@, cur[d])]
  /\ pc' = [pc EXCEPT ![d] = LoopPc(d)]
  /\ cur' = Advance(d)
  /\ UNCHANGED <<ppvars, xvars>>
  /\ UNCHANGED <<N, cap, n, cursor, fds, ecode, orphan, faults,
                 out, recvd, joins, exits, badclose>>

\* close(fd) issued by d on end e of the pipe named by descriptor value v
CloseFd(d, v, e) ==
  IF v # PIPE_INVALID /\ <<v, e>> \in fds[d]
    THEN fds' = [fds EXCEPT ![d] = @ \ {<<v, e>>}] /\ badclose' = badclose
    ELSE fds' = fds /\ badclose' = [badclose EXCEPT ![d] = @ + 1]

\* close_pipe_if_valid, lines 58-62
ClosePipeIfValid(d, v, e) ==
  IF v # PIPE_INVALID
    THEN CloseFd(d, v, e)
    ELSE fds' = fds /\ badclose' = badclose

\* the child without the close of line 81
ChildCloseWriteMut(d) ==
  /\ pc[d] = "close_lw"
  /\ pc' = [pc EXCEPT ![d] = "print"]
  /\ UNCHANGED <<ppvars, xvars>>
  /\ UNCHANGED <<N, cap, n, cur, cursor, fds, chan, ecode, orphan, faults,
                 out, sent, recvd, joins, exits, badclose>>

\* child, line 81: close_pipe_if_valid(pipe_left[PIPE_WRITE])
ChildCloseWrite(d) ==
  /\ pc[d] = "close_lw"
  /\ ClosePipeIfValid(d, d, PIPE_WRITE)
  /\ pc' = [pc EXCEPT ![d] = "print"]
  /\ UNCHANGED <<ppvars, xvars>>
  /\ UNCHANGED <<N, cap, n, cur, cursor, chan, ecode, orphan, faults,
                 out, sent, recvd, joins, exits>>

\* child, lines 84-88: print_prime(n); pipe_right invalid; received_number 0
ChildPrint(d) ==
  /\ pc[d] = "print"
  /\ out' = Append(out, PrintArg(d))
  /\ cursor' = [cursor EXCEPT ![d] = <<PIPE_INVALID, PIPE_INVALID>>]
  /\ cur' = [cur EXCEPT ![d] = 0]
  /\ pc' = [pc EXCEPT ![d] = "read"]
  /\ UNCHANGED <<ppvars, xvars>>
  /\ UNCHANGED <<N, cap, n, fds, chan, ecode, orphan, faults,
                 sent, recvd, joins, exits, badclose>>

\* child, lines 91-100: one read of the while loop, and the filter
ChildRead(d) ==
  /\ pc[d] = "read"
  /\ RD(d) \in fds[d]
  /\ IF chan[d] # <<>>
       THEN /\ chan' = [chan EXCEPT ![d] = Tail(@)]
            /\ recvd' = [recvd EXCEPT ![d] = Append(@, Head(chan[d]))]
            /\ cur' = [cur EXCEPT ![d] = Head(chan[d])]
            /\ pc' = IF IsMultiple(Head(chan[d]), n[d])
                       THEN pc
                       ELSE [pc EXCEPT ![d] = EnterDeliver(d)]
       ELSE /\ AtEOF(d)
            /\ pc' = [pc EXCEPT ![d] = "close_l"]
            /\ UNCHANGED <<chan, recvd, cur>>
  /\ UNCHANGED <<ppvars, xvars>>
  /\ UNCHANGED <<N, cap, n, cursor, fds, ecode, orphan, faults,
                 out, sent, joins, exits, badclose>>

\* child, line 103: close_pipe_if_valid(pipe_left[PIPE_READ])
ChildCloseLeft(d) ==
  /\ pc[d] = "close_l"
  /\ ClosePipeIfValid(d, d, PIPE_READ)
  /\ pc' = [pc EXCEPT ![d] = "close_r"]
  /\ UNCHANGED <<ppvars, xvars>>
  /\ UNCHANGED <<N, cap, n, cur, cursor, chan, ecode, orphan, faults,
                 out, sent, recvd, joins, exits>>

\* child, line 104: close_pipe_if_valid(pipe_right[PIPE_READ])
ChildCloseRightRead(d) ==
  /\ pc[d] = "close_r"
  /\ ClosePipeIfValid(d, cursor[d][PIPE_READ + 1], PIPE_READ)
  /\ pc' = [pc EXCEPT ![d] = "close_w"]
  /\ UNCHANGED <<ppvars, xvars>>
  /\ UNCHANGED <<N, cap, n, cur, cursor, chan, ecode, orphan, faults,
                 out, sent, recvd, joins, exits>>

\* the teardown without the close of line 105
ChildCloseRightWriteMut(d) ==
  /\ pc[d] = "close_w"
  /\ pc' = [pc EXCEPT ![d] = "wait"]
  /\ UNCHANGED <<ppvars, xvars>>
  /\ UNCHANGED <<N, cap, n, cur, cursor, fds, chan, ecode, orphan, faults,
                 out, sent, recvd, joins, exits, badclose>>

\* child, line 105: close_pipe_if_valid(pipe_right[PIPE_WRITE])
ChildCloseRightWrite(d) ==
  /\ pc[d] = "close_w"
  /\ ClosePipeIfValid(d, cursor[d][PIPE_WRITE + 1], PIPE_WRITE)
  /\ pc' = [pc EXCEPT ![d] = "wait"]
  /\ UNCHANGED <<ppvars, xvars>>
  /\ UNCHANGED <<N, cap, n, cur, cursor, chan, ecode, orphan, faults,
                 out, sent, recvd, joins, exits>>

\* main, line 150: close(p[PIPE_READ])
MainCloseRead ==
  /\ pc[0] = "close_r"
  /\ CloseFd(0, cursor[0][PIPE_READ + 1], PIPE_READ)
  /\ pc' = [pc EXCEPT ![0] = "close_w"]
  /\ UNCHANGED <<ppvars, xvars>>
  /\ UNCHANGED <<N, cap, n, cur, cursor, chan, ecode, orphan, faults,
                 out, sent, recvd, joins, exits>>

\* main, line 151: close(p[PIPE_WRITE])
MainCloseWrite ==
  /\ pc[0] = "close_w"
  /\ CloseFd(0, cursor[0][PIPE_WRITE + 1], PIPE_WRITE)
  /\ pc' = [pc EXCEPT ![0] = "wait"]
  /\ UNCHANGED <<ppvars, xvars>>
  /\ UNCHANGED <<N, cap, n, cur, cursor, chan, ecode, orphan, faults,
                 out, sent, recvd, joins, exits>>

\* the teardown without the wait of lines 108 and 154
WaitMut(d) ==
  /\ pc[d] = "wait"
  /\ pc' = [pc EXCEPT ![d] = "exit"]
  /\ ecode' = [ecode EXCEPT ![d] = 0]
  /\ UNCHANGED <<ppvars, xvars>>
  /\ UNCHANGED <<N, cap, n, cur, cursor, fds, chan, orphan, faults,
                 out, sent, recvd, joins, exits, badclose>>

\* lines 108-109 and 154-156: wait(0), then exit(0) / return 0.  wait
\* returns at once when the caller has no child, collects a child that has
\* exited, and blocks while the child runs.
Wait(d) ==
  /\ pc[d] = "wait"
  /\ IF HasChild(d)
       THEN /\ pc[d + 1] = "zombie"
            /\ pc' = [pc EXCEPT ![d] = "exit", ![d + 1] = "reaped"]
            /\ joins' = [joins EXCEPT ![d + 1] = @ + 1]
       ELSE /\ pc' = [pc EXCEPT ![d] = "exit"]
            /\ joins' = joins
  /\ ecode' = [ecode EXCEPT ![d] = 0]
  /\ UNCHANGED <<ppvars, xvars>>
  /\ UNCHANGED <<N, cap, n, cur, cursor, fds, chan, orphan, faults,
                 out, sent, recvd, exits, badclose>>

\* exit(status): every descriptor of d is closed, a child still alive or
\* uncollected is handed to init, d becomes a zombie
Exit(d) ==
  /\ pc[d] = "exit"
  /\ pc' = [pc EXCEPT ![d] = "zombie"]
  /\ fds' = [fds EXCEPT ![d] = {}]
  /\ orphan' = IF HasChild(d) THEN [orphan EXCEPT ![d + 1] = TRUE] ELSE orphan
  /\ exits' = Append(exits, d)
  /\ UNCHANGED <<ppvars, xvars>>
  /\ UNCHANGED <<N, cap, n, cur, cursor, chan, ecode, faults,
                 out, sent, recvd, joins, badclose>>

\* lines 73-76: pipe() fails; "pipe error", exit(1)
PipeFail(d) ==
  /\ pc[d] = "pipe"
  /\ faults < MaxFaults
  /\ faults' = faults + 1
  /\ pc' = [pc EXCEPT ![d] = "exit"]
  /\ ecode' = [ecode EXCEPT ![d] = 1]
  /\ UNCHANGED <<ppvars, xvars>>
  /\ UNCHANGED <<N, cap, n, cur, cursor, fds, chan, orphan,
                 out, sent, recvd, joins, exits, badclose>>

\* lines 112-115: fork() fails; "fork error", exit(1)
ForkFail(d) ==
  /\ pc[d] = "fork"
  /\ faults < MaxFaults
  /\ faults' = faults + 1
  /\ pc' = [pc EXCEPT ![d] = "exit"]
  /\ ecode' = [ecode EXCEPT ![d] = 1]
  /\ UNCHANGED <<ppvars, xvars>>
  /\ UNCHANGED <<N, cap, n, cur, cursor, fds, chan, orphan,
                 out, sent, recvd, joins, exits, badclose>>

\* lines 119-121: write() returns <= 0; exit(1)
WriteFail(d) ==
  /\ pc[d] = "write"
  /\ faults < MaxFaults
  /\ faults' = faults + 1
  /\ pc' = [pc EXCEPT ![d] = "exit"]
  /\ ecode' = [ecode EXCEPT ![d] = 1]
  /\ UNCHANGED <<ppvars, xvars>>
  /\ UNCHANGED <<N, cap, n, cur, cursor, fds, chan, orphan,
                 out, sent, recvd, joins, exits, badclose>>

Next ==
  \/ MainPrint
  \/ MainFor
  \/ MainCloseRead
  \/ MainCloseWrite
  \/ \E d \in Procs : Pipe(d)
  \/ \E d \in Procs : Fork(d)
  \/ \E d \in Procs : Write(d)
  \/ \E d \in Stages : ChildCloseWrite(d)
  \/ \E d \in Stages : ChildPrint(d)
  \/ \E d \in Stages : ChildRead(d)
  \/ \E d \in Stages : ChildCloseLeft(d)
  \/ \E d \in Stages : ChildCloseRightRead(d)
  \/ \E d \in Stages : ChildCloseRightWrite(d)
  \/ \E d \in Procs : Wait(d)
  \/ \E d \in Procs : Exit(d)

NextFault ==
  \/ Next
  \/ \E d \in Procs : PipeFail(d)
  \/ \E d \in Procs : ForkFail(d)
  \/ \E d \in Procs : WriteFail(d)

Spec == Init /\ [][Next]_vars

\* the scheduler keeps running some process while any process can run
FairSpec == Spec /\ WF_vars(Next)

\* the small ranges, with up to MaxFaults failing system calls
InitFault == Init /\ N <= MaxN

SpecFault == InitFault /\ [][NextFault]_vars

\* pingpong alone
InitPing == Init /\ N = MAX_PRIMES

SpecPing == InitPing /\ [][NextPing]_vars

\* xargs alone, on every standard input of at most MaxInput characters
InitXargs ==
  /\ N = MAX_PRIMES
  /\ cap = 1
  /\ PrimesStart
  /\ PingStart
  /\ \E input \in Inputs : XargsStart(input)

SpecXargs == InitXargs /\ [][NextXargs]_vars

\* ------------------------------------------------------------ vocabulary
IsPrime(x) == x >= 2 /\ \A k \in 2 .. (x - 1) : x % k # 0

PrimesUpTo(m) == {x \in 2 .. m : IsPrime(x)}

Range(s) == {s[j] : j \in DOMAIN s}

NoDuplicates(s) == \A j, k \in DOMAIN s : j # k => s[j] # s[k]

IsPrefix(s, t) == Len(s) <= Len(t) /\ \A j \in DOMAIN s : s[j] = t[j]

Spawned(d) == d \in Procs /\ pc[d] # "none"

Terminated(d) == pc[d] \in {"zombie", "reaped"}

\* d has left its loop: main's range is exhausted / the Stage saw end of file
PastLoop(d) ==
  pc[d] \in {"close_l", "close_r", "close_w", "wait", "exit", "zombie", "reaped"}

\* every process that was started has exited, every Stage has been collected
AllDone ==
  /\ pc[0] = "zombie"
  /\ \A d \in Stages : pc[d] \in {"none", "reaped"}

\* ------------------------------------------------------------------ claims
\* C1: the values printed by main and the Stages are exactly the primes
\* <= N: only primes are ever printed, none twice, and when main has exited
\* every prime <= N has been printed.
C1_PrintsExactlyThePrimes ==
  /\ \A j \in DOMAIN out : IsPrime(out[j]) /\ out[j] <= N
  /\ NoDuplicates(out)
  /\ pc[0] = "zombie" => Range(out) = PrimesUpTo(N)

C1_Witness ==
  /\ pc[0] = "zombie"
  /\ N = MAX_PRIMES
  /\ Len(out) = 11
  /\ 25 \in Range(recvd[2])

\* C2: in every interleaving the printed values are in strictly ascending
\* order.
C2_OutputAscending ==
  \A j, k \in DOMAIN out : j < k => out[j] < out[k]

C2_Witness ==
  /\ Len(out) >= 4
  /\ pc[1] = "write"
  /\ pc[2] = "read"
  /\ pc[3] = "read"

\* C3: without failures and under fair scheduling every run terminates with
\* every process exited, and no reachable state is a deadlock.
C3_Terminates ==
  /\ [](AllDone \/ ENABLED Next)
  /\ <>AllDone

C3_Witness ==
  /\ AllDone
  /\ cap = 1
  /\ Len(exits) >= 4

\* C4: when main has exited, every Stage ever forked has exited and has been
\* collected exactly once by the wait of the process that forked it.
C4_NoWorkerLeak ==
  /\ \A d \in Stages : joins[d] <= 1 /\ ~orphan[d]
  /\ pc[0] = "zombie" =>
       \A d \in Stages : Spawned(d) => pc[d] = "reaped" /\ joins[d] = 1

C4_Witness ==
  /\ pc[0] = "zombie"
  /\ \E d \in Stages : d >= 3 /\ joins[d] = 1

\* C5: a Stage exits only after the Stage it forked has exited, so exits
\* happen deepest first, and main's wait returns only after every Stage has
\* exited.
C5_BottomUpShutdown ==
  /\ \A j, k \in DOMAIN exits : j < k => exits[j] > exits[k]
  /\ \A d \in Procs :
       Terminated(d) /\ Spawned(d + 1) => Terminated(d + 1)
  /\ pc[0] \in {"exit", "zombie"} =>
       \A d \in Stages : Spawned(d) => Terminated(d)

C5_Witness ==
  /\ Len(exits) >= 3
  /\ pc[0] = "wait"

\* C6: main's exit status is 0 exactly when no pipe, fork or write failed in
\* any process of the pipeline.
C6_ExitStatusReportsFailure ==
  pc[0] = "zombie" => (ecode[0] = 0 <=> faults = 0)

\* C7: on every failure path a process that has exited has collected the
\* Stage it forked, so no Stage is left orphaned or uncollected.
C7_JoinedOnFailure ==
  \A d \in Procs :
    Terminated(d) /\ Spawned(d + 1) =>
      pc[d + 1] = "reaped" /\ joins[d + 1] = 1 /\ ~orphan[d + 1]

\* C8: on every pipe no value is lost or duplicated: the value that created
\* the pipe is the reader's n and is never written, every written value is
\* read once, in order, before the reader sees end of file, and the reader
\* sees end of file only after the writer has left its loop.
C8_NoLossNoDuplication ==
  \A k \in Pipes :
    /\ sent[k] = recvd[k] \o chan[k]
    /\ NoDuplicates(sent[k])
    /\ Spawned(k) => n[k] \notin Range(sent[k])
    /\ PastLoop(k) => recvd[k] = sent[k] /\ PastLoop(k - 1)

C8_Witness ==
  /\ PastLoop(2)
  /\ Len(recvd[2]) >= 2
  /\ Len(recvd[1]) >= 4

\* the values Stage d has passed on: the one it forked with, then its writes
Passed(d) ==
  IF Spawned(d + 1) THEN <<n[d + 1]>> \o sent[d + 1] ELSE <<>>

\* the values Stage d has read that are not multiples of its n
Survivors(d) == SelectSeq(recvd[d], LAMBDA v : v % n[d] # 0)

\* C9: what a Stage passes downstream is the subsequence of what it read
\* that is not a multiple of its n, in the same order.
C9_StagePreservesOrder ==
  \A d \in Stages :
    Spawned(d) =>
      /\ IsPrefix(Passed(d), Survivors(d))
      /\ Len(Survivors(d)) <= Len(Passed(d)) + 1
      /\ pc[d] = "read" \/ PastLoop(d) => Passed(d) = Survivors(d)

C9_Witness ==
  /\ PastLoop(2)
  /\ 25 \in Range(recvd[2])
  /\ Len(Passed(2)) >= 5
  /\ Len(recvd[2]) > Len(Passed(2))

\* the Stage is between its print and the end of its read loop
InLoop(d) == pc[d] \in {"print", "read", "pipe", "fork", "write"}

\* C10: every live Stage holds the read end of its own upstream pipe and of
\* no ancestor's pipe, at most the two ends of one downstream pipe, and no
\* process has more than one child.
C10_OneUpstreamEndpoint ==
  \A d \in Stages :
    InLoop(d) =>
      /\ {k \in Pipes : k <= d /\ RD(k) \in fds[d]} = {d}
      /\ fds[d] \subseteq {RD(d), RD(d + 1), WR(d + 1)}

Invalid == <<PIPE_INVALID, PIPE_INVALID>>

\* d has closed its downstream cursor: it is at or past its wait
TornDown(d) == pc[d] \in {"wait", "exit", "zombie", "reaped"}

\* C11: a cursor is initialized at most once, on the first forwarded value
\* (pipe and fork happen only while the owner has no child), every later
\* forward is a write on that same pipe, the owner keeps both ends open while
\* it is in its loop, and an initialized cursor never changes again.
C11_CursorLifecycle ==
  /\ [](\A d \in Procs :
          /\ pc[d] = "pipe" => cursor[d] = Invalid /\ ~Spawned(d + 1)
          /\ pc[d] = "fork" => cursor[d] = <<d + 1, d + 1>> /\ ~Spawned(d + 1)
          /\ pc[d] = "write" =>
               cursor[d] = <<d + 1, d + 1>> /\ Spawned(d + 1)
          /\ Spawned(d) /\ ~PastLoop(d) /\ cursor[d] # Invalid =>
               {RD(d + 1), WR(d + 1)} \subseteq fds[d]
          /\ TornDown(d) => fds[d] \cap {RD(d + 1), WR(d + 1)} = {})
  /\ [][\A d \in Procs :
          /\ cursor[d] # Invalid => cursor'[d] = cursor[d]
          /\ WR(d + 1) \in fds[d] /\ WR(d + 1) \notin fds'[d] => PastLoop(d)]_vars

C11_Witness ==
  /\ pc[0] = "write"
  /\ Len(sent[1]) >= 2
  /\ pc[1] = "write"
  /\ Len(sent[2]) >= 1

\* C12: no process ever issues a close on a descriptor that is not open in
\* it: not on an end of a cursor that was never initialized, not twice on
\* the same end.
C12_ClosesOnlyOpenEndpoints ==
  \A d \in Procs : badclose[d] = 0

\* the parent d has forked its child and is back in its code
ForkedAndBack(d) == Spawned(d + 1) /\ pc[d] \notin {"fork", "zombie", "reaped"}

\* C15: once the child is forked the parent no longer holds the read end of
\* the new pipe but still holds its write end until its teardown, and the
\* child has closed its copy of the write end before its first read.
C15_EndpointsClosedAtSpawn ==
  \A d \in Procs :
    /\ ForkedAndBack(d) => RD(d + 1) \notin fds[d]
    /\ ForkedAndBack(d) /\ ~PastLoop(d) => WR(d + 1) \in fds[d]
    /\ d # 0 /\ pc[d] \in {"print", "read"} => WR(d) \notin fds[d]

\* the processes that hold the write end of pipe k
Writers(k) == {q \in Procs : WR(k) \in fds[q]}

\* C16: only the creator of a pipe writes to it and only the Stage forked
\* with it reads from it; once that Stage has closed its copy, the creator
\* is the only holder of the write end until its own teardown.
C16_SingleWriterSingleReader ==
  /\ [](\A k \in Pipes :
          /\ Spawned(k) /\ pc[k] # "close_lw" /\ ~TornDown(k - 1) =>
               Writers(k) = {k - 1}
          /\ Writers(k) \subseteq {k - 1, k}
          /\ pc[k - 1] = "write" => cursor[k - 1][PIPE_WRITE + 1] = k)
  /\ [][\A k \in Pipes :
          /\ sent'[k] # sent[k] => pc[k - 1] = "write" /\ pc'[k - 1] # "write"
          /\ recvd'[k] # recvd[k] => pc[k] = "read"]_vars

C16_Witness ==
  /\ Len(recvd[2]) >= 2
  /\ Writers(2) = {1}
  /\ Writers(1) = {0}
  /\ pc[3] = "read"

\* the filter values met before depth k: the base prime and the n of every
\* shallower Stage
EarlierPrimes(k) == {START_PRIME} \cup {n[j] : j \in 1 .. (k - 1)}

\* C17: every value a Stage received, and its own n, is a multiple of no
\* earlier filter value; no Stage passes on a multiple of its own n; and
\* every Stage's n is a prime number.
C17_SieveInvariant ==
  \A k \in Stages :
    Spawned(k) =>
      /\ \A v \in Range(recvd[k]) \cup {n[k]} :
           \A q \in EarlierPrimes(k) : v % q # 0
      /\ \A v \in Range(Passed(k)) : v % n[k] # 0
      /\ IsPrime(n[k])

C17_Witness ==
  /\ Spawned(4)
  /\ Len(recvd[3]) >= 2
  /\ 25 \in Range(recvd[2])

\* C18: a process is in its wait only after its own source is exhausted and
\* after it has closed its write end of the pipe its child reads.
C18_JoinAfterClose ==
  \A d \in Procs :
    pc[d] = "wait" =>
      /\ WR(d + 1) \notin fds[d]
      /\ d = 0 => cur[0] > N
      /\ d # 0 => chan[d] = <<>> /\ Writers(d) = {} /\ recvd[d] = sent[d]

C18_Witness ==
  /\ pc[2] = "wait"
  /\ pc[3] = "read"
  /\ pc[1] = "wait"
  /\ Len(sent[3]) >= 1

\* C19: the Stage at depth d never holds more than d + 2 pipe ends and main
\* never more than 2; for the compiled-in range no process holds more than
\* 11, which with the 3 standard descriptors stays within 16.
C19_BoundedEndpoints ==
  \A d \in Procs :
    /\ Cardinality(fds[d]) <= d + 2
    /\ N = MAX_PRIMES => Cardinality(fds[d]) <= 11
    /\ N = MAX_PRIMES => Cardinality(fds[d]) + 3 <= 16

C19_Witness ==
  /\ N = MAX_PRIMES
  /\ Cardinality(fds[9]) = 11
  /\ Spawned(10)

\* C13 (pingpong): the child reads the byte the parent wrote, the parent
\* reads the byte the child wrote back and never its own, and the parent
\* prints "received pong" only after the child has printed "received ping".
C13_PingBeforePong ==
  /\ pgot["child"] \in {"nobody", "parent"}
  /\ pgot["parent"] \in {"nobody", "child"}
  /\ ppos["parent"] > 0 => ppos["child"] = Len(PingLine)

\* both processes of pingpong have exited with status 0, the child has been
\* collected and both lines are printed
PingDone ==
  /\ ppc["parent"] = "zombie"
  /\ ppc["child"] = "reaped"
  /\ pcode = [p \in PP |-> 0]
  /\ ppos["child"] = Len(PingLine)
  /\ ppos["parent"] = Len(PongLine)

\* C14 (pingpong): every run ends with both messages printed and both
\* processes exited with status 0; no state leaves the child blocked in read
\* while the parent is blocked in wait.
C14_PingTerminates ==
  PingDone \/ ENABLED NextPing

\* C20 (xargs): a forked child only execs: it never waits, reads a further
\* line of standard input, forks or reaches main's exit; only process 0
\* iterates over the lines.
C20_ChildEndsWithItsLine ==
  \A q \in XProcs \ {0} :
    xpc[q] \in {"none", "exec", "command", "zombie", "reaped"}

====
